---------------------------- MODULE Spec2Model ----------------------------
(***************************************************************************)
(* A model of jni-bindgen's binding emitter (emit_rust/structs.rs,         *)
(* emit_rust/methods.rs, emit_rust/modules.rs) and of jni-glue's VM        *)
(* attachment helper (vm.rs).                                              *)
(*                                                                         *)
(* Rendered text is modelled as sequences of tokens: every push_str /      *)
(* format! piece of the source is one token, so that nesting depth and     *)
(* order can be read back from a rendered expression.                      *)
(***************************************************************************)
EXTENDS Integers, Sequences, FiniteSets, TLC

(***************************************************************************)
(* Bounds of the model.                                                    *)
(***************************************************************************)
\* Deepest array nesting of a type signature (method::Type::Array.levels).
MaxLevels == 2

\* Most methods of a class written by Struct::write.
MaxMethods == 2

\* Most parameters of a method.
MaxParams == 1

\* Most namespaces, and most enclosing classes, of a class id.
MaxParts == 2

(***************************************************************************)
(* jreflection::method::BasicType and method::Type.                        *)
(***************************************************************************)
\* The class ids a descriptor may name: "K" and "B" are members of
\* context.all_classes, "M" is not; "B" has a component with no Rust
\* identifier, so java_to_rust_path fails on it.
ClassIds == {"K", "M", "B"}

all_classes == {"K", "B"}

Primitives ==
    {"Void", "Boolean", "Byte", "Char", "Short", "Int", "Long", "Float", "Double"}

ArrayPrimitives == Primitives \ {"Void"}

Prim(tag) == [tag |-> tag, class |-> ""]

Class(c) == [tag |-> "Class", class |-> c]

BasicTypes == {Prim(p) : p \in Primitives} \cup {Class(c) : c \in ClassIds}

\* method::Type::Single(b) is levels = 0; method::Type::Array { levels, inner }
\* has levels >= 1.
Single(b) == [levels |-> 0, inner |-> b]

Array(levels, inner) == [levels |-> levels, inner |-> inner]

Types == [levels : 0 .. MaxLevels, inner : BasicTypes]

(***************************************************************************)
(* Small helpers on token sequences.                                       *)
(***************************************************************************)
RECURSIVE Repeat(_, _)
Repeat(toks, n) == IF n <= 0 THEN << >> ELSE toks \o Repeat(toks, n - 1)

RECURSIVE Flatten(_)
Flatten(seqs) == IF seqs = << >> THEN << >> ELSE Head(seqs) \o Flatten(Tail(seqs))

Range(s) == {s[i] : i \in DOMAIN s}

Ok(v) == [ok |-> TRUE, val |-> v]

Err == [ok |-> FALSE, val |-> ""]

Some(v) == [some |-> TRUE, val |-> v]

None == [some |-> FALSE, val |-> ""]


(***************************************************************************)
(* Context helpers used by the type mapper.  Their code is not part of     *)
(* the emitter files; they are modelled from their documented contract.    *)
(***************************************************************************)
\* Context::java_to_rust_path(class, mod_): the Rust path of a class, or an
\* error when a component of the class id has no Rust identifier.
java_to_rust_path(class) ==
    IF class = "B" THEN Err ELSE Ok("crate::pkg::" \o class)

\* Context::throwable_rust_path(mod_).
throwable_rust_path == "crate::java::lang::Throwable"

(***************************************************************************)
(* Method::emit, the type mapper (methods.rs 113-191, 214-307).            *)
(* Each operator returns the rendered tokens together with the rejection   *)
(* reasons the source pushes while rendering them, in push order.          *)
(***************************************************************************)
\* The Rust scalar of a primitive (methods.rs 118-125, 217-224).
PrimitiveRust(tag) ==
    CASE tag = "Boolean" -> "bool"
      [] tag = "Byte"    -> "i8"
      [] tag = "Char"    -> "u16"
      [] tag = "Short"   -> "i16"
      [] tag = "Int"     -> "i32"
      [] tag = "Long"    -> "i64"
      [] tag = "Float"   -> "f32"
      [] tag = "Double"  -> "f64"

\* The primitive array wrapper (methods.rs 150-157, 253-260).
PrimitiveArray(tag) ==
    CASE tag = "Boolean" -> "__jni_bindgen::BooleanArray"
      [] tag = "Byte"    -> "__jni_bindgen::ByteArray"
      [] tag = "Char"    -> "__jni_bindgen::CharArray"
      [] tag = "Short"   -> "__jni_bindgen::ShortArray"
      [] tag = "Int"     -> "__jni_bindgen::IntArray"
      [] tag = "Long"    -> "__jni_bindgen::LongArray"
      [] tag = "Float"   -> "__jni_bindgen::FloatArray"
      [] tag = "Double"  -> "__jni_bindgen::DoubleArray"

\* The opening loop as it would run with one round per level.
array_open_per_level(levels) == Repeat(<<"__jni_bindgen::ObjectArray<">>, levels)

\* for _ in 0..(levels - 1) { buffer.push_str("__jni_bindgen::ObjectArray<") }
array_open(levels) == Repeat(<<"__jni_bindgen::ObjectArray<">>, levels - 1)

\* for _ in 0..(levels - 1) { ", " throwable ">" }
array_close(levels) == Repeat(<<", ", throwable_rust_path, ">">>, levels - 1)

\* arg_array_inner as it would be if an array of void were let through
\* without a reason.
arg_array_inner_void_unreported(inner) ==
    CASE inner.tag = "Class" ->
            LET path == java_to_rust_path(inner.class)
            IN  [text |-> <<"__jni_bindgen::ObjectArray<">>
                          \o (IF path.ok THEN <<path.val>> ELSE <<"???">>)
                          \o <<", ", throwable_rust_path, ">">>,
                 reasons |->
                    (IF inner.class \notin all_classes
                     THEN <<"ERROR:  missing class for argument type">>
                     ELSE << >>)
                    \o (IF path.ok THEN << >>
                        ELSE <<"ERROR:  Failed to resolve JNI path to Rust path for argument type">>)]
      [] inner.tag = "Void" ->
            [text |-> <<"[()]">>, reasons |-> << >>]
      [] OTHER ->
            [text |-> <<PrimitiveArray(inner.tag)>>, reasons |-> << >>]

\* match inner { ... } of an array argument (methods.rs 149-179).
arg_array_inner(inner) ==
    CASE inner.tag = "Class" ->
            LET path == java_to_rust_path(inner.class)
            IN  [text |-> <<"__jni_bindgen::ObjectArray<">>
                          \o (IF path.ok THEN <<path.val>> ELSE <<"???">>)
                          \o <<", ", throwable_rust_path, ">">>,
                 reasons |->
                    (IF inner.class \notin all_classes
                     THEN <<"ERROR:  missing class for argument type">>
                     ELSE << >>)
                    \o (IF path.ok THEN << >>
                        ELSE <<"ERROR:  Failed to resolve JNI path to Rust path for argument type">>)]
      [] inner.tag = "Void" ->
            [text |-> <<"[()]">>,
             reasons |-> <<"ERROR:  Arrays of void isn't a thing">>]
      [] OTHER ->
            [text |-> <<PrimitiveArray(inner.tag)>>, reasons |-> << >>]

\* match inner { ... } of an array return (methods.rs 252-282).
ret_array_inner(inner) ==
    CASE inner.tag = "Class" ->
            LET path == java_to_rust_path(inner.class)
            IN  [text |-> <<"__jni_bindgen::ObjectArray<">>
                          \o (IF path.ok THEN <<path.val>> ELSE <<"???">>)
                          \o <<", ", throwable_rust_path, ">">>,
                 reasons |->
                    (IF inner.class \notin all_classes
                     THEN <<"ERROR:  missing class for return type">>
                     ELSE << >>)
                    \o (IF path.ok THEN << >>
                        ELSE <<"ERROR:  Failed to resolve JNI path to Rust path for return type">>)]
      [] inner.tag = "Void" ->
            [text |-> <<"[()]">>,
             reasons |-> <<"ERROR:  Arrays of void isn't a thing">>]
      [] OTHER ->
            [text |-> <<PrimitiveArray(inner.tag)>>, reasons |-> << >>]

\* let arg_type = match arg { ... } together with param_is_object
\* (methods.rs 111-191).
arg_type(arg) ==
    IF arg.levels = 0
    THEN CASE arg.inner.tag = "Void" ->
                [text |-> <<"()">>,
                 reasons |-> <<"ERROR:  Void arguments aren't a thing">>,
                 param_is_object |-> FALSE]
           [] arg.inner.tag = "Class" ->
                LET path == java_to_rust_path(arg.inner.class)
                IN  [text |->
                        IF path.ok
                        THEN <<"impl __jni_bindgen::std::convert::Into<__jni_bindgen::std::option::Option<&'env ",
                               path.val, ">>">>
                        ELSE <<arg.inner.class>>,
                     reasons |->
                        (IF arg.inner.class \notin all_classes
                         THEN <<"ERROR:  missing class for argument type">>
                         ELSE << >>)
                        \o (IF path.ok THEN << >>
                            ELSE <<"ERROR:  Failed to resolve JNI path to Rust path for argument type">>),
                     param_is_object |-> TRUE]
           [] OTHER ->
                [text |-> <<PrimitiveRust(arg.inner.tag)>>,
                 reasons |-> << >>,
                 param_is_object |-> FALSE]
    ELSE LET elem == arg_array_inner(arg.inner)
         IN  [text |->
                 <<"impl __jni_bindgen::std::convert::Into<__jni_bindgen::std::option::Option<&'env ">>
                 \o array_open(arg.levels) \o elem.text \o array_close(arg.levels)
                 \o <<">>">>,
              reasons |-> elem.reasons,
              param_is_object |-> TRUE]

\* ret_decl as it would be without the lookup of a plain class return type
\* in all_classes.
ret_decl_class_unchecked(ret) ==
    IF ret.levels = 0
    THEN CASE ret.inner.tag = "Void" -> [text |-> <<"()">>, reasons |-> << >>]
           [] ret.inner.tag = "Class" ->
                LET path == java_to_rust_path(ret.inner.class)
                IN  [text |->
                        IF path.ok
                        THEN <<"__jni_bindgen::std::option::Option<__jni_bindgen::Local<'env, ",
                               path.val, ">>">>
                        ELSE <<ret.inner.class>>,
                     reasons |->
                        IF path.ok THEN << >>
                        ELSE <<"ERROR:  Failed to resolve JNI path to Rust path for return type">>]
           [] OTHER -> [text |-> <<PrimitiveRust(ret.inner.tag)>>, reasons |-> << >>]
    ELSE IF ret.levels = 1 /\ ret.inner.tag = "Void"
    THEN [text |-> <<"???">>,
          reasons |-> <<"ERROR:  Returning arrays of void isn't a thing">>]
    ELSE LET elem == ret_array_inner(ret.inner)
         IN  [text |->
                 <<"__jni_bindgen::std::option::Option<__jni_bindgen::Local<'env, ">>
                 \o array_open(ret.levels) \o elem.text \o array_close(ret.levels)
                 \o <<">>">>,
              reasons |-> elem.reasons]

\* let mut ret_decl = match descriptor.return_type() { ... } (methods.rs 214-292).
ret_decl(ret) ==
    IF ret.levels = 0
    THEN CASE ret.inner.tag = "Void" -> [text |-> <<"()">>, reasons |-> << >>]
           [] ret.inner.tag = "Class" ->
                LET path == java_to_rust_path(ret.inner.class)
                IN  [text |->
                        IF path.ok
                        THEN <<"__jni_bindgen::std::option::Option<__jni_bindgen::Local<'env, ",
                               path.val, ">>">>
                        ELSE <<ret.inner.class>>,
                     reasons |->
                        (IF ret.inner.class \notin all_classes
                         THEN <<"ERROR:  missing class for return type">>
                         ELSE << >>)
                        \o (IF path.ok THEN << >>
                            ELSE <<"ERROR:  Failed to resolve JNI path to Rust path for return type">>)]
           [] OTHER -> [text |-> <<PrimitiveRust(ret.inner.tag)>>, reasons |-> << >>]
    ELSE IF ret.levels = 1 /\ ret.inner.tag = "Void"
    THEN [text |-> <<"???">>,
          reasons |-> <<"ERROR:  Returning arrays of void isn't a thing">>]
    ELSE LET elem == ret_array_inner(ret.inner)
         IN  [text |->
                 <<"__jni_bindgen::std::option::Option<__jni_bindgen::Local<'env, ">>
                 \o array_open(ret.levels) \o elem.text \o array_close(ret.levels)
                 \o <<">>">>,
              reasons |-> elem.reasons]

\* The dispatch fragment as it would be if an array were dispatched by the
\* type of its elements.
ret_method_fragment_by_element(ret) ==
    IF ret.inner.tag = "Class"
    THEN "object"
    ELSE CASE ret.inner.tag = "Void"    -> "void"
           [] ret.inner.tag = "Boolean" -> "boolean"
           [] ret.inner.tag = "Byte"    -> "byte"
           [] ret.inner.tag = "Char"    -> "char"
           [] ret.inner.tag = "Short"   -> "short"
           [] ret.inner.tag = "Int"     -> "int"
           [] ret.inner.tag = "Long"    -> "long"
           [] ret.inner.tag = "Float"   -> "float"
           [] ret.inner.tag = "Double"  -> "double"

\* let mut ret_method_fragment = match descriptor.return_type() { ... }
\* (methods.rs 294-307).
ret_method_fragment(ret) ==
    IF ret.levels > 0 \/ ret.inner.tag = "Class"
    THEN "object"
    ELSE CASE ret.inner.tag = "Void"    -> "void"
           [] ret.inner.tag = "Boolean" -> "boolean"
           [] ret.inner.tag = "Byte"    -> "byte"
           [] ret.inner.tag = "Char"    -> "char"
           [] ret.inner.tag = "Short"   -> "short"
           [] ret.inner.tag = "Int"     -> "int"
           [] ret.inner.tag = "Long"    -> "long"
           [] ret.inner.tag = "Float"   -> "float"
           [] ret.inner.tag = "Double"  -> "double"


(***************************************************************************)
(* State.                                                                  *)
(***************************************************************************)
VARIABLES
    config,      \* context.config: ignore lists, rename tables, codegen switches
    class,       \* Struct.java: the reflected class being written
    rust,        \* Struct.rust: the StructPaths computed by Struct::new
    methods,     \* Struct::write's Vec<Method>: rust_name and mangling_style
    id_repeats,  \* Struct::write's HashMap of public member names to counts
    pc,          \* position inside Struct::write
    next_member, \* index of the next method / field the emit loops visit
    out,         \* the lines written to `out` so far
    jvm,         \* VM::with_env: the JVM's side, per thread: attached, handles
    thread,      \* VM::with_env: per thread, the position and locals of its call
    sig,         \* type mapper: the direction and the method::Type to map
    mapped,      \* type mapper: what was rendered for sig
    items,       \* Module tree: the structs the generator was given
    pending,     \* Module tree: the structs not yet inserted
    root,        \* Module tree: context.module, the root Module
    mpc,         \* position of the generator around Module::write
    mout         \* the lines Module::write wrote to `out`

writeVars == <<config, class, rust, methods, id_repeats, pc, next_member, out>>

vmVars == <<jvm, thread>>

typeVars == <<sig, mapped>>

modVars == <<items, pending, root, mpc, mout>>

vars == <<config, class, rust, methods, id_repeats, pc, next_member, out,
          jvm, thread, sig, mapped, items, pending, root, mpc, mout>>

(***************************************************************************)
(* identifiers::MethodManglingStyle::mangle.  The mangler is not part of   *)
(* the emitter files; it is modelled from its contract: a verbatim style   *)
(* that escapes reserved words, a long style that appends a suffix         *)
(* derived from the descriptor, and failure on names with characters that  *)
(* no Rust identifier can hold.                                            *)
(***************************************************************************)
\* config.codegen.method_naming_style and method_naming_style_collision.
method_naming_style == "Java"

method_naming_style_collision == "JavaLongSignature"

Keywords == {"type"}

Unmangleable == {"<clinit>", "a-b"}

BasicCode(b) ==
    CASE b.tag = "Void"    -> "V"
      [] b.tag = "Boolean" -> "Z"
      [] b.tag = "Byte"    -> "B"
      [] b.tag = "Char"    -> "C"
      [] b.tag = "Short"   -> "S"
      [] b.tag = "Int"     -> "I"
      [] b.tag = "Long"    -> "J"
      [] b.tag = "Float"   -> "F"
      [] b.tag = "Double"  -> "D"
      [] b.tag = "Class"   -> "L" \o b.class \o "_"

RECURSIVE TypeCode(_)
TypeCode(t) ==
    IF t.levels = 0 THEN BasicCode(t.inner)
    ELSE "A" \o TypeCode([t EXCEPT !.levels = t.levels - 1])

RECURSIVE ParamCodes(_)
ParamCodes(params) ==
    IF params = << >> THEN "" ELSE TypeCode(Head(params)) \o ParamCodes(Tail(params))

DescriptorSuffix(descriptor) ==
    ParamCodes(descriptor.params) \o "_" \o TypeCode(descriptor.ret)

mangle(name, descriptor, style) ==
    IF name \in Unmangleable THEN Err
    ELSE LET base == IF name = "<init>" THEN "new"
                     ELSE IF name \in Keywords THEN "r#" \o name
                     ELSE name
         IN  IF style = "Java" THEN Ok(base)
             ELSE Ok(base \o "_" \o DescriptorSuffix(descriptor))

(***************************************************************************)
(* jreflection::Method accessors as the emitter uses them.                 *)
(***************************************************************************)
descriptor(java) == [params |-> java.params, ret |-> java.ret]

is_constructor(java) == java.name = "<init>"

is_static_init(java) == java.name = "<clinit>"

(***************************************************************************)
(* Method (methods.rs 10-43).                                              *)
(***************************************************************************)
\* Method::set_mangling_style (methods.rs 33-43).
set_mangling_style(method, style) ==
    LET name == mangle(method.java.name, descriptor(method.java), style)
    IN  [method EXCEPT !.mangling_style = style,
                       !.rust_name = IF name.ok THEN Some(name.val) ELSE None]

\* Method::new (methods.rs 18-27).
Method_new(java) ==
    set_mangling_style([java |-> java, rust_name |-> None, mangling_style |-> "Java"],
                       method_naming_style)

(***************************************************************************)
(* Method::emit (methods.rs 45-406).                                       *)
(*                                                                         *)
(* A written line is a record: src names the member whose emit wrote it,   *)
(* commented tells whether it carries the "// " indent of a rejected       *)
(* member, kind names the writeln! it comes from, and name / params / ret  *)
(* hold the pieces formatted into it.  The #[deprecated] attribute and     *)
(* the documentation URL are left out of the rendered pieces.              *)
(***************************************************************************)
Line(src, commented, kind, name, params, ret) ==
    [src |-> src, commented |-> commented, kind |-> kind,
     name |-> name, params |-> params, ret |-> ret]

\* format!("{}\x1f{}", class.path, java.name) (methods.rs 48).
java_class_method(java) == <<class.path, java.name>>

\* format!("{}\x1f{}\x1f{}", class.path, java.name, descriptor_str) (methods.rs 49-54).
java_class_method_sig(java) == <<class.path, java.name, descriptor(java)>>

\* methods.rs 56-57.
ignored(java) ==
    \/ java_class_method(java) \in config.ignore_class_methods
    \/ java_class_method_sig(java) \in config.ignore_class_method_sigs

\* methods.rs 59-63.
renamed_to(java) ==
    IF java_class_method(java) \in DOMAIN config.rename_class_methods
    THEN Some(config.rename_class_methods[java_class_method(java)])
    ELSE IF java_class_method_sig(java) \in DOMAIN config.rename_class_method_sigs
    THEN Some(config.rename_class_method_sigs[java_class_method_sig(java)])
    ELSE None

\* The choice of the name as it would be if a failed mangling fell back to
\* the Java name without a reason.
method_name_failure_unflagged(method) ==
    IF renamed_to(method.java).some
    THEN [name |-> renamed_to(method.java).val, reasons |-> << >>]
    ELSE IF method.rust_name.some
    THEN [name |-> method.rust_name.val, reasons |-> << >>]
    ELSE [name |-> method.java.name, reasons |-> << >>]

\* let method_name = ... (methods.rs 67-74).
method_name(method) ==
    IF renamed_to(method.java).some
    THEN [name |-> renamed_to(method.java).val, reasons |-> << >>]
    ELSE IF method.rust_name.some
    THEN [name |-> method.rust_name.val, reasons |-> << >>]
    ELSE [name |-> method.java.name,
          reasons |-> <<"ERROR:  Failed to mangle method name">>]

\* The flag checks as they would be without the one for bridge methods.
flag_reasons_bridge_unflagged(java) ==
    IF ~java.public THEN <<"Non-public method">> ELSE << >>

\* The reasons pushed by the flag checks before the static-initializer
\* return (methods.rs 76-81).
flag_reasons(java) ==
    (IF ~java.public THEN <<"Non-public method">> ELSE << >>)
    \o (IF java.bridge THEN <<"Bridge method - type erasure">> ELSE << >>)

\* The ignore check as it would be if a rename overrode it.
ignore_reasons_unless_renamed(java) ==
    IF ignored(java) /\ ~renamed_to(java).some THEN <<"[[ignore]]d">> ELSE << >>

\* methods.rs 86-88.
ignore_reasons(java) == IF ignored(java) THEN <<"[[ignore]]d">> ELSE << >>

\* let mut params_decl = ... (methods.rs 96-106).
params_decl_init(java) ==
    IF is_constructor(java) \/ java.static
    THEN IF config.static_env = "Explicit"
         THEN [text |-> <<"__jni_env: __jni_bindgen::Env<'env>">>, reasons |-> << >>]
         ELSE [text |-> << >>,
               reasons |-> <<"ERROR:  StaticEnvStyle::__NonExhaustive is invalid, silly goose!">>]
    ELSE [text |-> <<"&'env self">>, reasons |-> << >>]

\* One round of for (arg_idx, arg) in descriptor.arguments().enumerate()
\* (methods.rs 108-212), folded over the arguments from arg_idx on.
RECURSIVE params_loop(_, _, _)
params_loop(args, arg_idx, acc) ==
    IF arg_idx > Len(args) THEN acc
    ELSE LET arg_name == "arg" \o ToString(arg_idx - 1)
             ty       == arg_type(args[arg_idx])
         IN  params_loop(args, arg_idx + 1,
                [params_array |->
                    acc.params_array
                    \o (IF acc.params_array # << >> THEN <<", ">> ELSE << >>)
                    \o <<"__jni_bindgen::AsJValue::as_jvalue(", "&", arg_name>>
                    \o (IF ty.param_is_object THEN <<".into()">> ELSE << >>)
                    \o <<")">>,
                 params_decl |->
                    acc.params_decl
                    \o (IF acc.params_decl # << >> THEN <<", ">> ELSE << >>)
                    \o <<arg_name, ": ">> \o ty.text,
                 reasons |-> acc.reasons \o ty.reasons])

params(java) ==
    params_loop(java.params, 1,
                [params_array |-> << >>,
                 params_decl  |-> params_decl_init(java).text,
                 reasons      |-> params_decl_init(java).reasons])

\* The constructor special case as it would be if it took the mapped return
\* type of a constructor like that of any other method.
constructor_override_skipped(java) ==
    [ret_decl |-> ret_decl(java.ret).text,
     ret_method_fragment |-> ret_method_fragment(java.ret),
     reasons |-> << >>]

\* if self.java.is_constructor() { ... } (methods.rs 309-316): the final
\* ret_decl and ret_method_fragment and the reason it may push.
constructor_override(java) ==
    IF is_constructor(java)
    THEN IF java.ret = Single(Prim("Void"))
         THEN [ret_decl |-> <<"__jni_bindgen::Local<'env, Self>">>,
               ret_method_fragment |-> "object",
               reasons |-> << >>]
         ELSE [ret_decl |-> ret_decl(java.ret).text,
               ret_method_fragment |-> ret_method_fragment(java.ret),
               reasons |-> <<"ERROR:  Constructor should've returned void">>]
    ELSE [ret_decl |-> ret_decl(java.ret).text,
          ret_method_fragment |-> ret_method_fragment(java.ret),
          reasons |-> << >>]

\* emit_reject_reasons at its freeze (methods.rs 318), for a method that is
\* not a static initializer.
emit_reject_reasons(method) ==
    method_name(method).reasons
    \o flag_reasons(method.java)
    \o ignore_reasons(method.java)
    \o params(method.java).reasons
    \o ret_decl(method.java.ret).reasons
    \o constructor_override(method.java).reasons

\* The call written at methods.rs 384-402.
call_line(java) ==
    IF is_constructor(java) THEN "new_object_a"
    ELSE IF java.static
    THEN "call_static_" \o constructor_override(java).ret_method_fragment \o "_method_a"
    ELSE "call_" \o constructor_override(java).ret_method_fragment \o "_method_a"

\* The first argument of the call written at methods.rs 384-402: the class
\* for new_object_a and for a static call, the object of self otherwise.
call_receiver(java) ==
    IF is_constructor(java) \/ java.static THEN "__jni_class" ELSE "self.0.object"

\* The writes of methods.rs 330-404, with the indent chosen at 319-326.
emit_lines(method, src, commented) ==
    LET java == method.java
        L(kind, name, ps, ret) == Line(src, commented, kind, name, ps, ret)
    IN  <<Line(src, FALSE, "blank", "", << >>, << >>)>>
        \o [k \in 1 .. Len(emit_reject_reasons(method)) |->
              L("reason", emit_reject_reasons(method)[k], << >>, << >>)]
        \o <<L("doc", java.name, << >>, << >>),
             L("fn", method_name(method).name, params(java).params_decl,
               constructor_override(java).ret_decl),
             L("provenance", java.name, << >>, << >>),
             L("unsafe", "", << >>, << >>),
             L("args", "", params(java).params_array, << >>)>>
        \o (IF is_constructor(java) \/ java.static
            THEN IF config.static_env = "Explicit" THEN << >>
                 ELSE <<L("env", "let __jni_env = ...?;", << >>, << >>)>>
            ELSE <<L("env", "__jni_bindgen::Env::from_raw(self.0.env)", << >>, << >>)>>)
        \o <<L("require",
               IF java.static THEN "require_class_static_method"
                              ELSE "require_class_method", << >>, << >>),
             L("call", call_line(java), <<call_receiver(java)>>, << >>),
             L("close_unsafe", "", << >>, << >>),
             L("close_fn", "", << >>, << >>)>>

\* Method::emit as it would be without the early return for static
\* initializers.
emit_static_init_not_skipped(method, src) ==
    IF emit_reject_reasons(method) = << >>
    THEN emit_lines(method, src, FALSE)
    ELSE IF ~config.keep_rejected_emits THEN << >>
    ELSE emit_lines(method, src, TRUE)

\* Method::emit: everything it writes to `out` (methods.rs 45-406).
emit(method, src) ==
    IF is_static_init(method.java) THEN << >>
    ELSE IF emit_reject_reasons(method) = << >>
    THEN emit_lines(method, src, FALSE)
    ELSE IF ~config.keep_rejected_emits THEN << >>
    ELSE emit_lines(method, src, TRUE)

(***************************************************************************)
(* Struct paths (structs.rs 35-87).  A class id is the sequence of its     *)
(* parts as class::Id::iter() yields them: namespaces, then enclosing      *)
(* classes, then the leaf class.                                           *)
(***************************************************************************)
Namespace(id) == [part |-> "Namespace", id |-> id]

ContainingClass(id) == [part |-> "ContainingClass", id |-> id]

LeafClass(id) == [part |-> "LeafClass", id |-> id]

\* RustIdentifier::NonIdentifier: ids with no Rust equivalent.
NonIdentifiers == {"a-b", ""}

\* rust_id (structs.rs 35-45): keywords are returned unescaped.
rust_id(id) == IF id \in NonIdentifiers THEN Err ELSE Ok(id)

\* The loop of mod_for as it would be without the test for an empty buffer.
RECURSIVE mod_for_loop_separator_first(_, _, _)
mod_for_loop_separator_first(id, k, buf) ==
    IF k > Len(id) THEN Ok(buf)
    ELSE IF id[k].part = "Namespace"
    THEN IF ~rust_id(id[k].id).ok THEN Err
         ELSE mod_for_loop_separator_first(id, k + 1,
                  buf \o "::" \o rust_id(id[k].id).val)
    ELSE mod_for_loop_separator_first(id, k + 1, buf)

\* Struct::mod_for (structs.rs 48-63), folded over the parts from k on;
\* buf is the string built so far.
RECURSIVE mod_for_loop(_, _, _)
mod_for_loop(id, k, buf) ==
    IF k > Len(id) THEN Ok(buf)
    ELSE IF id[k].part = "Namespace"
    THEN IF ~rust_id(id[k].id).ok THEN Err
         ELSE mod_for_loop(id, k + 1,
                  (IF buf # "" THEN buf \o "::" ELSE buf) \o rust_id(id[k].id).val)
    ELSE mod_for_loop(id, k + 1, buf)

mod_for(id) == mod_for_loop(id, 1, "")

\* config.rename_classes.get(class.as_str()) (structs.rs 66-71).
rename_to(id) ==
    IF id \in DOMAIN config.rename_classes
    THEN Ok(config.rename_classes[id]) ELSE Err

\* Struct::name_for (structs.rs 65-81).
RECURSIVE name_for_loop(_, _, _)
name_for_loop(id, k, buf) ==
    IF k > Len(id) THEN Ok(buf)
    ELSE IF id[k].part = "ContainingClass"
    THEN IF ~rust_id(id[k].id).ok THEN Err
         ELSE name_for_loop(id, k + 1, buf \o rust_id(id[k].id).val \o "_")
    ELSE IF id[k].part = "LeafClass"
    THEN LET leaf == IF rename_to(id).ok THEN rename_to(id) ELSE rust_id(id[k].id)
         IN  IF ~leaf.ok THEN Err
             ELSE name_for_loop(id, k + 1, buf \o leaf.val)
    ELSE name_for_loop(id, k + 1, buf)

name_for(id) == name_for_loop(id, 1, "")

\* StructPaths::new (structs.rs 21-26): an error of either part is the error.
StructPaths_new(id) ==
    IF mod_for(id).ok /\ name_for(id).ok
    THEN [state |-> "ok", mod_ |-> mod_for(id).val, struct_name |-> name_for(id).val]
    ELSE [state |-> "error", mod_ |-> "", struct_name |-> ""]

\* Struct::new (structs.rs 83-87).
Struct_new ==
    /\ rust.state = "new"
    /\ rust' = StructPaths_new(class.path)
    /\ UNCHANGED <<config, class, methods, id_repeats, pc, next_member, out>>
    /\ UNCHANGED <<vmVars, typeVars, modVars>>

(***************************************************************************)
(* Struct::write (structs.rs 89-217).                                      *)
(***************************************************************************)
Member(who, idx) == [who |-> who, idx |-> idx]

\* Field::emit.  fields.rs is not part of the emitter files modelled here: a
\* field writes one line per accessor name it was constructed with.
Field_emit(field, src) ==
    CASE field.rust_names.kind = "ConstValue" ->
            <<Line(src, FALSE, "field", field.rust_names.a, << >>, << >>)>>
      [] field.rust_names.kind = "GetSet" ->
            <<Line(src, FALSE, "field", field.rust_names.a, << >>, << >>),
              Line(src, FALSE, "field", field.rust_names.b, << >>, << >>)>>
      [] OTHER -> << >>

\* The header written before the members (structs.rs 90-156).  The keyword,
\* visibility and attribute words of the declaration are left out; an
\* interface outside all_classes is skipped, and the unwrap of a failed
\* java_to_rust_path panics.
header_panics ==
    \/ class.super_path.some /\ ~java_to_rust_path(class.super_path.val).ok
    \/ \E k \in DOMAIN class.interfaces :
          /\ class.interfaces[k] \in all_classes
          /\ ~java_to_rust_path(class.interfaces[k]).ok

RECURSIVE implements(_)
implements(interfaces) ==
    IF interfaces = << >> THEN << >>
    ELSE (IF Head(interfaces) \in all_classes
          THEN <<java_to_rust_path(Head(interfaces)).val>> ELSE << >>)
         \o implements(Tail(interfaces))

header ==
    LET src == Member("struct", 0)
        super_path == IF class.super_path.some
                      THEN java_to_rust_path(class.super_path.val).val
                      ELSE "()"
    IN  <<Line(src, FALSE, "blank", "", << >>, << >>),
          Line(src, FALSE, "macro_open", "__jni_bindgen! {", << >>, << >>),
          Line(src, FALSE, "doc", "", << >>, << >>),
          Line(src, FALSE, "struct", rust.struct_name,
               <<super_path>>, implements(class.interfaces))>>

\* The closing lines (structs.rs 214-215).
footer ==
    <<Line(Member("struct", 0), FALSE, "close_struct", "", << >>, << >>),
      Line(Member("struct", 0), FALSE, "macro_close", "", << >>, << >>)>>

\* The names the two counting loops add to id_repeats, in order
\* (structs.rs 173-196).
RECURSIVE method_names(_)
method_names(ms) ==
    IF ms = << >> THEN << >>
    ELSE (IF Head(ms).java.public /\ Head(ms).rust_name.some
          THEN <<Head(ms).rust_name.val>> ELSE << >>)
         \o method_names(Tail(ms))

\* The field counting loop as it would be if a getter and setter pair
\* counted once, under the getter's name.
RECURSIVE field_names_getter_only(_)
field_names_getter_only(fs) ==
    IF fs = << >> THEN << >>
    ELSE (IF ~Head(fs).public THEN << >>
          ELSE CASE Head(fs).rust_names.kind = "ConstValue" -> <<Head(fs).rust_names.a>>
                 [] Head(fs).rust_names.kind = "GetSet" -> <<Head(fs).rust_names.a>>
                 [] OTHER -> << >>)
         \o field_names_getter_only(Tail(fs))

RECURSIVE field_names(_)
field_names(fs) ==
    IF fs = << >> THEN << >>
    ELSE (IF ~Head(fs).public THEN << >>
          ELSE CASE Head(fs).rust_names.kind = "ConstValue" -> <<Head(fs).rust_names.a>>
                 [] Head(fs).rust_names.kind = "GetSet" ->
                        <<Head(fs).rust_names.a, Head(fs).rust_names.b>>
                 [] OTHER -> << >>)
         \o field_names(Tail(fs))

\* *id_repeats.entry(name).or_insert(0) += 1 for every name of the sequence.
tally(names) ==
    [n \in Range(names) |-> Cardinality({k \in DOMAIN names : names[k] = n})]

\* Variants of the collision test of the emit loop, used to show that the
\* naming properties depend on it: one re-mangles only names counted more
\* than twice, the other every counted name.
remangle_above_two(method) ==
    IF method.rust_name.some
    THEN LET name == method.rust_name.val
             repeats == IF name \in DOMAIN id_repeats THEN id_repeats[name] ELSE 0
             overloaded == repeats > 2
         IN  IF overloaded THEN set_mangling_style(method, method_naming_style_collision) ELSE method
    ELSE method

remangle_every_name(method) ==
    IF method.rust_name.some
    THEN LET name == method.rust_name.val
             repeats == IF name \in DOMAIN id_repeats THEN id_repeats[name] ELSE 0
             overloaded == repeats > 0
         IN  IF overloaded THEN set_mangling_style(method, method_naming_style_collision) ELSE method
    ELSE method

\* The re-mangling decision of the emit loop (structs.rs 199-205).
remangle(method) ==
    IF method.rust_name.some
    THEN LET name == method.rust_name.val
             repeats == IF name \in DOMAIN id_repeats THEN id_repeats[name] ELSE 0
             overloaded == repeats > 1
         IN  IF overloaded
             THEN set_mangling_style(method, method_naming_style_collision)
             ELSE method
    ELSE method

\* structs.rs 89-196: the header, the construction of the Method and Field
\* vectors and the two counting loops.
Begin ==
    /\ pc = "start"
    /\ IF header_panics
       THEN /\ pc' = "panicked"
            /\ UNCHANGED <<methods, id_repeats, next_member, out>>
       ELSE /\ out' = out \o header
            /\ methods' = [k \in DOMAIN class.methods |-> Method_new(class.methods[k])]
            /\ id_repeats' =
                  tally(method_names([k \in DOMAIN class.methods |->
                                         Method_new(class.methods[k])])
                        \o field_names(class.fields))
            /\ next_member' = 1
            /\ pc' = "emit"
    /\ UNCHANGED <<config, class, rust>>
    /\ UNCHANGED <<vmVars, typeVars, modVars>>

\* A round of the method loop as it would be if the method were emitted
\* before the collision test re-mangles it.
EmitMethod_before_remangle ==
    /\ pc = "emit"
    /\ next_member <= Len(methods)
    /\ methods' = [methods EXCEPT ![next_member] = remangle(methods[next_member])]
    /\ out' = out \o emit(methods[next_member], Member("method", next_member))
    /\ next_member' = next_member + 1
    /\ UNCHANGED <<config, class, rust, id_repeats, pc>>
    /\ UNCHANGED <<vmVars, typeVars, modVars>>

\* One round of for method in &mut methods (structs.rs 198-208).
EmitMethod ==
    /\ pc = "emit"
    /\ next_member <= Len(methods)
    /\ methods' = [methods EXCEPT ![next_member] = remangle(methods[next_member])]
    /\ out' = out \o emit(remangle(methods[next_member]), Member("method", next_member))
    /\ next_member' = next_member + 1
    /\ UNCHANGED <<config, class, rust, id_repeats, pc>>
    /\ UNCHANGED <<vmVars, typeVars, modVars>>

\* One round of for field in &mut fields (structs.rs 210-212).
EmitField ==
    /\ pc = "emit"
    /\ next_member > Len(methods)
    /\ next_member <= Len(methods) + Len(class.fields)
    /\ out' = out \o Field_emit(class.fields[next_member - Len(methods)],
                                Member("field", next_member - Len(methods)))
    /\ next_member' = next_member + 1
    /\ UNCHANGED <<config, class, rust, methods, id_repeats, pc>>
    /\ UNCHANGED <<vmVars, typeVars, modVars>>

\* structs.rs 214-216.
Finish ==
    /\ pc = "emit"
    /\ next_member = Len(methods) + Len(class.fields) + 1
    /\ out' = out \o footer
    /\ pc' = "done"
    /\ UNCHANGED <<config, class, rust, methods, id_repeats, next_member>>
    /\ UNCHANGED <<vmVars, typeVars, modVars>>

(***************************************************************************)
(* VM::with_env (vm.rs 37-51).                                             *)
(*                                                                         *)
(* Every native thread runs with_env calls one after the other; the steps  *)
(* of a call are its JNI calls and the callback.  The JVM side keeps, per  *)
(* thread, whether it is attached and how many environment handles it was  *)
(* issued; the handle of an attached thread is <<thread, handles>>.  A     *)
(* panic unwinds the calling thread, which makes no further call.  The     *)
(* callback is caller code that returns a value.                           *)
(***************************************************************************)
\* Native threads calling with_env, and with_env calls per thread.
MaxThreads == 2

MaxCalls == 2

Threads == 1 .. MaxThreads

\* What the callbacks return.
Results == {"r1", "r2"}

NullEnv == <<0, 0>>

\* The JNIEnv* the JVM holds for an attached thread.
EnvOf(t) == <<t, jvm[t].handles>>

\* The codes GetEnv can answer on thread t: the JNI contract's answer for the
\* thread's state, or a code outside the contract.
GetEnvCodes(t, version_ok) ==
    (IF ~version_ok THEN {"JNI_EVERSION"}
     ELSE IF jvm[t].attached THEN {"JNI_OK"} ELSE {"JNI_EDETACHED"})
    \cup {"JNI_ERR"}

AttachCodes == {"JNI_OK", "JNI_ERR"}

\* The match on GetEnv as it would be if it attached on JNI_OK as well.
on_GetEnv_attach_always(code) ==
    CASE code = "JNI_OK"        -> "AttachCurrentThread"
      [] code = "JNI_EDETACHED" -> "AttachCurrentThread"
      [] code = "JNI_EVERSION"  -> "panicked"
      [] OTHER                  -> "panicked"

\* match GetEnv(..) { ... } (vm.rs 42-50): where the call goes on the code.
on_GetEnv(code) ==
    CASE code = "JNI_OK"        -> "callback"
      [] code = "JNI_EDETACHED" -> "AttachCurrentThread"
      [] code = "JNI_EVERSION"  -> "panicked"
      [] OTHER                  -> "panicked"

\* The match on AttachCurrentThread as it would be if a failed attach made
\* the call start over.
on_AttachCurrentThread_retry(code) ==
    CASE code = "JNI_OK" -> "callback"
      [] OTHER           -> "GetEnv"

\* match AttachCurrentThread(..) { ... } (vm.rs 44-47).
on_AttachCurrentThread(code) ==
    CASE code = "JNI_OK" -> "callback"
      [] OTHER           -> "panicked"

\* A thread enters with_env: let mut env = null_mut() (vm.rs 41).
Call(t) ==
    /\ thread[t].pc = "idle"
    /\ thread[t].calls < MaxCalls
    /\ thread' = [thread EXCEPT ![t] =
          [pc |-> "GetEnv", calls |-> @.calls + 1, env |-> NullEnv,
           env_before |-> IF jvm[t].attached THEN EnvOf(t) ELSE NullEnv,
           get_env |-> "", get_env_calls |-> 0,
           attach |-> "", attach_calls |-> 0,
           callback_runs |-> 0, callback_env |-> NullEnv,
           callback_result |-> "", returned |-> "",
           attaches_since_detach |-> @.attaches_since_detach]]
    /\ UNCHANGED <<jvm, writeVars, typeVars, modVars>>

\* ((**self.0).v1_2.GetEnv)(self.0, &mut env, JNI_VERSION_1_2) (vm.rs 42).
GetEnv(t) ==
    /\ thread[t].pc = "GetEnv"
    /\ \E code \in GetEnvCodes(t, jvm[t].version_ok) :
          thread' = [thread EXCEPT ![t].pc = on_GetEnv(code),
                                   ![t].get_env = code,
                                   ![t].get_env_calls = @ + 1,
                                   ![t].env = IF code = "JNI_OK" THEN EnvOf(t) ELSE @]
    /\ UNCHANGED <<jvm, writeVars, typeVars, modVars>>

\* ((**self.0).v1_2.AttachCurrentThread)(self.0, &mut env, null_mut())
\* (vm.rs 44).  Attaching an attached thread answers its handle again.
AttachCurrentThread(t) ==
    /\ thread[t].pc = "AttachCurrentThread"
    /\ \E code \in AttachCodes :
          LET handles == IF code = "JNI_OK" /\ ~jvm[t].attached
                         THEN jvm[t].handles + 1 ELSE jvm[t].handles
          IN  /\ jvm' = [jvm EXCEPT ![t].attached = @ \/ code = "JNI_OK",
                                    ![t].handles = handles]
              /\ thread' = [thread EXCEPT
                    ![t].pc = on_AttachCurrentThread(code),
                    ![t].attach = code,
                    ![t].attach_calls = @ + 1,
                    ![t].attaches_since_detach = @ + 1,
                    ![t].env = IF code = "JNI_OK" THEN <<t, handles>> ELSE @]
    /\ UNCHANGED <<writeVars, typeVars, modVars>>

\* callback(unsafe { Env::from_raw(env as _) }) and the return of its value
\* (vm.rs 43, 45).
Callback(t) ==
    /\ thread[t].pc = "callback"
    /\ \E r \in Results :
          thread' = [thread EXCEPT ![t].pc = "idle",
                                   ![t].callback_runs = @ + 1,
                                   ![t].callback_env = thread[t].env,
                                   ![t].callback_result = r,
                                   ![t].returned = r]
    /\ UNCHANGED <<jvm, writeVars, typeVars, modVars>>

\* The caller detaches its thread between two calls (DetachCurrentThread is
\* never called by with_env itself).
Detach(t) ==
    /\ thread[t].pc = "idle"
    /\ thread[t].calls < MaxCalls
    /\ jvm[t].attached
    /\ jvm' = [jvm EXCEPT ![t].attached = FALSE]
    /\ thread' = [thread EXCEPT ![t].attaches_since_detach = 0]
    /\ UNCHANGED <<writeVars, typeVars, modVars>>

IdleThread ==
    [pc |-> "idle", calls |-> 0, env |-> NullEnv, env_before |-> NullEnv,
     get_env |-> "", get_env_calls |-> 0, attach |-> "", attach_calls |-> 0,
     callback_runs |-> 0, callback_env |-> NullEnv, callback_result |-> "",
     returned |-> "", attaches_since_detach |-> 0]

\* Threads start idle; a thread may have been attached by the JVM or by its
\* caller before; the VM does or does not support JNI_VERSION_1_2.
InitVM ==
    /\ \E version_ok \in BOOLEAN :
          jvm \in [Threads -> {[attached |-> a, handles |-> IF a THEN 1 ELSE 0,
                                version_ok |-> version_ok] : a \in BOOLEAN}]
    /\ thread = [t \in Threads |-> IdleThread]

NextVM ==
    \E t \in Threads :
        \/ Call(t)
        \/ GetEnv(t)
        \/ AttachCurrentThread(t)
        \/ Callback(t)
        \/ Detach(t)

(***************************************************************************)
(* Module and Module::write (modules.rs 7-103).                            *)
(*                                                                         *)
(* A Module is a record of two maps, structs and modules, each a function  *)
(* from its keys; a BTreeMap iterates its keys in ascending order.  The    *)
(* generator inserts the structs one by one, in any order, and then calls  *)
(* Module::write on the root.  What Struct::write (or, sharded, the        *)
(* include! of its file) puts between the lines of Module::write is one    *)
(* line here.                                                              *)
(***************************************************************************)
\* Structs given to the generator, and the depth of the deepest module.
MaxStructs == 3

MaxDepth == 2

\* The keys in use, in the ascending order of String.
KeyOrder == <<"Outer_Inner", "X", "a", "b">>

Rank(key) == CHOOSE n \in DOMAIN KeyOrder : KeyOrder[n] = key

\* BTreeMap::iter: the keys of a map from the least to the greatest.
RECURSIVE keys_ascending(_)
keys_ascending(keys) ==
    IF keys = {} THEN << >>
    ELSE LET least == CHOOSE k \in keys : \A other \in keys : Rank(k) <= Rank(other)
         IN  <<least>> \o keys_ascending(keys \ {least})

\* Module::default().
EmptyModule == [structs |-> << >>, modules |-> << >>]

\* Context::add_struct: walk rust.mod_ from the root, creating the modules
\* that are missing, and insert the struct under its struct_name.
RECURSIVE add_struct(_, _, _)
add_struct(module, mod_, s) ==
    IF mod_ = << >>
    THEN [module EXCEPT !.structs = (s.struct_name :> s) @@ module.structs]
    ELSE LET name  == Head(mod_)
             child == IF name \in DOMAIN module.modules
                      THEN module.modules[name] ELSE EmptyModule
         IN  [module EXCEPT
                 !.modules = (name :> add_struct(child, Tail(mod_), s)) @@ module.modules]

ModLine(kind, name, depth) == [kind |-> kind, name |-> name, depth |-> depth]

\* The attributes written before a module of the root (modules.rs 20-41).
module_attrs(depth) ==
    IF depth = 0
    THEN <<ModLine("allow", "non_camel_case_types", 0),
           ModLine("allow", "dead_code", 0),
           ModLine("allow", "deprecated", 0),
           ModLine("allow", "non_upper_case_globals", 0),
           ModLine("allow", "non_snake_case", 0)>>
    ELSE << >>

\* The attributes written before a struct of the root (modules.rs 49-74).
struct_attrs(structure, depth) ==
    IF depth = 0
    THEN (IF structure.has_underscore
          THEN <<ModLine("allow", "non_camel_case_types", 0)>> ELSE << >>)
         \o (IF ~structure.public THEN <<ModLine("allow", "dead_code", 0)>> ELSE << >>)
         \o <<ModLine("allow", "deprecated", 0),
              ModLine("allow", "non_upper_case_globals", 0),
              ModLine("allow", "non_snake_case", 0)>>
    ELSE << >>

\* modules.rs 76-98: the struct itself, or the include! of its shard.
struct_body(structure, depth) ==
    IF config.shard_structs
    THEN <<ModLine("include", structure.struct_name, depth)>>
    ELSE <<ModLine("struct", structure.struct_name, depth)>>

\* Module::write with the structs before the modules.
RECURSIVE Module_write_structs_first(_, _)
Module_write_structs_first(module, depth) ==
    LET names == keys_ascending(DOMAIN module.modules)
        keys  == keys_ascending(DOMAIN module.structs)
    IN  Flatten([n \in DOMAIN keys |->
                    struct_attrs(module.structs[keys[n]], depth)
                    \o struct_body(module.structs[keys[n]], depth)])
        \o Flatten([n \in DOMAIN names |->
                    <<ModLine("blank", "", depth)>>
                    \o module_attrs(depth)
                    \o <<ModLine("mod", names[n], depth),
                         ModLine("use", "", depth + 1)>>
                    \o Module_write_structs_first(module.modules[names[n]], depth + 1)
                    \o <<ModLine("close", names[n], depth)>>])

\* Module::write (modules.rs 15-102); depth counts the indent steps.
RECURSIVE Module_write(_, _)
Module_write(module, depth) ==
    LET names == keys_ascending(DOMAIN module.modules)
        keys  == keys_ascending(DOMAIN module.structs)
    IN  Flatten([n \in DOMAIN names |->
                    <<ModLine("blank", "", depth)>>
                    \o module_attrs(depth)
                    \o <<ModLine("mod", names[n], depth),
                         ModLine("use", "", depth + 1)>>
                    \o Module_write(module.modules[names[n]], depth + 1)
                    \o <<ModLine("close", names[n], depth)>>])
        \o Flatten([n \in DOMAIN keys |->
                    struct_attrs(module.structs[keys[n]], depth)
                    \o struct_body(module.structs[keys[n]], depth)])

\* The generator inserts one of the structs it still holds.
AddStruct ==
    /\ mpc = "collect"
    /\ \E s \in pending :
          /\ root' = add_struct(root, s.mod_, s)
          /\ pending' = pending \ {s}
    /\ UNCHANGED <<items, mpc, mout>>
    /\ UNCHANGED <<writeVars, vmVars, typeVars>>

\* All structs are in: the generator calls write on the root Module.
WriteModules ==
    /\ mpc = "collect"
    /\ pending = {}
    /\ mout' = Module_write(root, 0)
    /\ mpc' = "done"
    /\ UNCHANGED <<items, pending, root>>
    /\ UNCHANGED <<writeVars, vmVars, typeVars>>

NextModules == AddStruct \/ WriteModules

ModulesIdle ==
    /\ items = {}
    /\ pending = {}
    /\ root = EmptyModule
    /\ mpc = "idle"
    /\ mout = << >>

(***************************************************************************)
(* The type mapper on its own: one signature is mapped as an argument or   *)
(* as a return type.                                                       *)
(***************************************************************************)
NotMapped == [state |-> "new", text |-> << >>, reasons |-> << >>, fragment |-> ""]

\* The argument arm (methods.rs 113-191) or the return arms (214-307).
MapType ==
    /\ mapped.state = "new"
    /\ mapped' =
          IF sig.dir = "argument"
          THEN [state |-> "mapped", text |-> arg_type(sig.ty).text,
                reasons |-> arg_type(sig.ty).reasons, fragment |-> ""]
          ELSE [state |-> "mapped", text |-> ret_decl(sig.ty).text,
                reasons |-> ret_decl(sig.ty).reasons,
                fragment |-> ret_method_fragment(sig.ty)]
    /\ UNCHANGED <<sig, writeVars, vmVars, modVars>>

(***************************************************************************)
(* The classes and configurations Struct::write is run on.                 *)
(***************************************************************************)
\* pkg.Outer$Inner
ClassPath == <<Namespace("pkg"), ContainingClass("Outer"), LeafClass("Inner")>>

TVoid == Single(Prim("Void"))

TInt == Single(Prim("Int"))

JavaClass(path, ms, fs) ==
    [path |-> path, super_path |-> Some("K"), interfaces |-> << >>,
     methods |-> ms, fields |-> fs]

ConstValue(name) == [kind |-> "ConstValue", a |-> name, b |-> ""]

GetSet(get, set) == [kind |-> "GetSet", a |-> get, b |-> set]

NoFieldNames == [kind |-> "Err", a |-> "", b |-> ""]

Config(ignore, ignore_sigs, rename, rename_sigs, keep) ==
    [ignore_class_methods     |-> ignore,
     ignore_class_method_sigs |-> ignore_sigs,
     rename_class_methods     |-> rename,
     rename_class_method_sigs |-> rename_sigs,
     rename_classes           |-> << >>,
     keep_rejected_emits      |-> keep,
     static_env               |-> "Explicit",
     shard_structs            |-> FALSE]

\* A class file holds no two methods of the same name and descriptor.
DistinctMethods(ms) ==
    \A j, k \in DOMAIN ms :
        j # k => <<ms[j].name, descriptor(ms[j])>> # <<ms[k].name, descriptor(ms[k])>>

MethodLists(universe) ==
    {ms \in UNION {[1 .. n -> universe] : n \in 1 .. MaxMethods} : DistinctMethods(ms)}

\* Spec: classes whose methods overload and collide.  Methods named alike
\* with different descriptors, a name that cannot be mangled, a parameter of
\* a class outside all_classes, and a field whose accessor names may collide
\* with a method's.
WriteMethods ==
    [name   : {"foo", "a-b"},
     public : BOOLEAN,
     static : {FALSE},
     bridge : {FALSE},
     params : {<< >>, <<TInt>>, <<Single(Class("M"))>>},
     ret    : {TVoid}]

WriteFields ==
    {<< >>,
     <<[public |-> TRUE, rust_names |-> ConstValue("foo")]>>,
     <<[public |-> TRUE, rust_names |-> GetSet("foo", "set_foo")]>>,
     <<[public |-> FALSE, rust_names |-> ConstValue("foo")]>>,
     <<[public |-> TRUE, rust_names |-> NoFieldNames]>>}

FooKey == <<ClassPath, "foo">>

FooSigKey == <<ClassPath, "foo", [params |-> << >>, ret |-> TVoid]>>

WriteConfigs ==
    {Config(ignore, {}, rename, rename_sigs, keep) :
        ignore \in SUBSET {FooKey},
        rename \in {<< >>, [k \in {FooKey} |-> "renamed"]},
        rename_sigs \in {<< >>, [k \in {FooSigKey} |-> "renamed_sig"]},
        keep \in BOOLEAN}

\* SpecEmit: classes of one method under test, followed by a well-formed
\* method and a field.  The method under test comes from two families: every
\* combination of name and flags over a few descriptors, under every
\* ignore / rename configuration that names it; and every descriptor of up
\* to MaxParams parameters and any return type, under both values of
\* keep_rejected_emits.
TailMethod ==
    [name |-> "bar", public |-> TRUE, static |-> FALSE, bridge |-> FALSE,
     params |-> << >>, ret |-> TVoid]

TailField == [public |-> TRUE, rust_names |-> ConstValue("CONST")]

\* A static initializer takes no arguments and returns void (JVMS 2.9); a
\* constructor is reflected with whatever return type the class file claims.
FlagMethods ==
    {m \in [name   : {"foo", "type", "<init>", "<clinit>", "a-b"},
            public : BOOLEAN,
            static : BOOLEAN,
            bridge : BOOLEAN,
            params : {<< >>, <<Single(Class("M"))>>, <<TVoid>>},
            ret    : {TVoid, TInt}] :
        is_static_init(m) => m.params = << >> /\ m.ret = TVoid}

FlagConfigs(m) ==
    LET key == <<ClassPath, m.name>>
        sig_key == <<ClassPath, m.name, descriptor(m)>>
    IN  {Config(ignore, ignore_sigs, rename, rename_sigs, keep) :
            ignore \in SUBSET {key},
            ignore_sigs \in SUBSET {sig_key},
            rename \in {<< >>, [k \in {key} |-> "renamed"]},
            rename_sigs \in {<< >>, [k \in {sig_key} |-> "renamed_sig"]},
            keep \in BOOLEAN}

ParamTypes ==
    [levels : 0 .. MaxLevels, inner : {Prim("Void"), Prim("Int"), Class("M")}]

ParamLists == UNION {[1 .. n -> ParamTypes] : n \in 0 .. MaxParams}

TypeMethods ==
    [name   : {"foo", "<init>"},
     public : {TRUE},
     static : BOOLEAN,
     bridge : {FALSE},
     params : ParamLists,
     ret    : {TVoid, TInt, Single(Class("M"))}]
    \cup
    [name   : {"foo", "<init>"},
     public : {TRUE},
     static : BOOLEAN,
     bridge : {FALSE},
     params : {<< >>},
     ret    : Types]

TypeConfigs == {Config({}, {}, << >>, << >>, keep) : keep \in BOOLEAN}

\* SpecPaths: class ids of up to MaxParts namespaces and enclosing classes,
\* some with parts that have no Rust identifier, with and without a rename.
PartLists(ids) == UNION {[1 .. n -> ids] : n \in 0 .. MaxParts}

ClassPaths ==
    {[k \in 1 .. Len(ns) |-> Namespace(ns[k])]
     \o [k \in 1 .. Len(cs) |-> ContainingClass(cs[k])]
     \o <<LeafClass(leaf)>> :
        ns \in PartLists({"pkg", "type", "a-b"}),
        cs \in PartLists({"Outer", "a-b"}),
        leaf \in {"Inner", "a-b"}}

(***************************************************************************)
(* Initial states and specifications.                                      *)
(***************************************************************************)
\* Struct::write has not begun.
WriteStart ==
    /\ methods = << >>
    /\ id_repeats = << >>
    /\ pc = "start"
    /\ next_member = 0
    /\ out = << >>

\* No Struct is being written.
WriteIdle ==
    /\ config = Config({}, {}, << >>, << >>, FALSE)
    /\ class = JavaClass(ClassPath, << >>, << >>)
    /\ rust = StructPaths_new(ClassPath)
    /\ methods = << >>
    /\ id_repeats = << >>
    /\ pc = "idle"
    /\ next_member = 0
    /\ out = << >>

VMIdle ==
    /\ jvm = [t \in Threads |-> [attached |-> FALSE, handles |-> 0, version_ok |-> TRUE]]
    /\ thread = [t \in Threads |-> IdleThread]

TypesIdle ==
    /\ sig = [dir |-> "argument", ty |-> TVoid]
    /\ mapped = [NotMapped EXCEPT !.state = "idle"]

Init ==
    /\ class \in {JavaClass(ClassPath, ms, fs) :
                     ms \in MethodLists(WriteMethods), fs \in WriteFields}
    /\ config \in WriteConfigs
    /\ rust = StructPaths_new(ClassPath)
    /\ WriteStart
    /\ VMIdle
    /\ TypesIdle
    /\ ModulesIdle

InitEmit ==
    /\ \E m \in FlagMethods \cup TypeMethods :
          /\ class = JavaClass(ClassPath, <<m, TailMethod>>, <<TailField>>)
          /\ config \in (IF m \in FlagMethods THEN FlagConfigs(m) ELSE {})
                        \cup (IF m \in TypeMethods THEN TypeConfigs ELSE {})
    /\ rust = StructPaths_new(ClassPath)
    /\ WriteStart
    /\ VMIdle
    /\ TypesIdle
    /\ ModulesIdle

InitPaths ==
    /\ \E path \in ClassPaths :
          /\ class = JavaClass(path, << >>, << >>)
          /\ config \in {[Config({}, {}, << >>, << >>, FALSE)
                            EXCEPT !.rename_classes = r] :
                         r \in {<< >>, [k \in {path} |-> "Renamed"]}}
    /\ rust = [state |-> "new", mod_ |-> "", struct_name |-> ""]
    /\ methods = << >>
    /\ id_repeats = << >>
    /\ pc = "idle"
    /\ next_member = 0
    /\ out = << >>
    /\ VMIdle
    /\ TypesIdle
    /\ ModulesIdle

InitTypes ==
    /\ WriteIdle
    /\ VMIdle
    /\ sig \in [dir : {"argument", "return"}, ty : Types]
    /\ mapped = NotMapped
    /\ ModulesIdle

\* The structs of a run: module paths of up to MaxDepth names, no two
\* structs with the same path and key (add_struct refuses a second one);
\* the root and its child modules hold up to two structs each.
ModPaths == UNION {[1 .. n -> {"a", "b"}] : n \in 0 .. MaxDepth}

StructItems ==
    [mod_ : ModPaths, struct_name : {"X", "Outer_Inner"},
     has_underscore : BOOLEAN, public : BOOLEAN]

RECURSIVE SetsUpTo(_, _)
SetsUpTo(S, n) ==
    IF n = 0 THEN {{}}
    ELSE SetsUpTo(S, n - 1) \cup {T \cup {x} : T \in SetsUpTo(S, n - 1), x \in S}

ItemSets ==
    SetsUpTo({s \in StructItems :
                 /\ s.has_underscore = (s.struct_name = "Outer_Inner")
                 /\ s.public = (s.struct_name = "X")
                 /\ s.struct_name = "Outer_Inner" => Len(s.mod_) <= 1},
             MaxStructs) \ {{}}

InitModules ==
    /\ config \in {[Config({}, {}, << >>, << >>, FALSE) EXCEPT !.shard_structs = b] :
                      b \in BOOLEAN}
    /\ class = JavaClass(ClassPath, << >>, << >>)
    /\ rust = StructPaths_new(ClassPath)
    /\ methods = << >>
    /\ id_repeats = << >>
    /\ pc = "idle"
    /\ next_member = 0
    /\ out = << >>
    /\ VMIdle
    /\ TypesIdle
    /\ items \in ItemSets
    /\ pending = items
    /\ root = EmptyModule
    /\ mpc = "collect"
    /\ mout = << >>

\* Classes with and without a super class and with up to MaxParts
\* interfaces, known or not, and one method that takes or returns a class.
HeaderMethods ==
    [name   : {"foo"},
     public : {TRUE},
     static : {FALSE},
     bridge : {FALSE},
     params : {<< >>, <<Single(Class("M"))>>, <<Single(Class("K"))>>},
     ret    : {TVoid, Single(Class("M")), Array(1, Class("K"))}]

InitHeader ==
    /\ \E m \in HeaderMethods, super \in {None} \cup {Some(c) : c \in ClassIds},
          interfaces \in PartLists(ClassIds) :
          class = [JavaClass(ClassPath, <<m>>, <<TailField>>)
                      EXCEPT !.super_path = super, !.interfaces = interfaces]
    /\ config \in TypeConfigs
    /\ rust = StructPaths_new(ClassPath)
    /\ WriteStart
    /\ VMIdle
    /\ TypesIdle
    /\ ModulesIdle

InitVMSpec ==
    /\ WriteIdle
    /\ InitVM
    /\ TypesIdle
    /\ ModulesIdle

Next == Begin \/ EmitMethod \/ EmitField \/ Finish

Spec == Init /\ [][Next]_vars

SpecEmit == InitEmit /\ [][Next]_vars

SpecPaths == InitPaths /\ [][Struct_new]_vars

SpecTypes == InitTypes /\ [][MapType]_vars

SpecVM == InitVMSpec /\ [][NextVM]_vars

SpecModules == InitModules /\ [][NextModules]_vars

SpecHeader == InitHeader /\ [][Next]_vars

(***************************************************************************)
(* Properties.                                                             *)
(*                                                                         *)
(* Vocabulary: method k of the class has been visited once the emit loop   *)
(* has passed it; it is written when its fn line is in `out`, and live     *)
(* when that line is not commented out.                                    *)
(***************************************************************************)
Visited(k) == pc \in {"emit", "done"} /\ k \in DOMAIN class.methods /\ next_member > k

LinesOf(src) == SelectSeq(out, LAMBDA l : l.src = src)

FnLineOf(k) ==
    SelectSeq(out, LAMBDA l : l.src = Member("method", k) /\ l.kind = "fn")

Written(k) == FnLineOf(k) # << >>

Live(k) == Written(k) /\ ~FnLineOf(k)[1].commented

RenderedName(k) == FnLineOf(k)[1].name

\* The short-style and long-style manglings of a method's name.
ShortName(java) == mangle(java.name, descriptor(java), method_naming_style)

LongName(java) == mangle(java.name, descriptor(java), method_naming_style_collision)

Renamed(java) == renamed_to(java).some

\* Two public methods of the class whose short-style names are equal.
Collide(j, k) ==
    /\ j # k
    /\ class.methods[j].public /\ class.methods[k].public
    /\ ShortName(class.methods[j]).ok /\ ShortName(class.methods[k]).ok
    /\ ShortName(class.methods[j]).val = ShortName(class.methods[k]).val

\* Every non-blank line written for method k is commented out, and one of
\* them is the "Not emitting" line of the reason.
StubWith(k, reason) ==
    /\ Written(k)
    /\ \A n \in DOMAIN LinesOf(Member("method", k)) :
          LinesOf(Member("method", k))[n].kind # "blank"
             => LinesOf(Member("method", k))[n].commented
    /\ \E n \in DOMAIN LinesOf(Member("method", k)) :
          /\ LinesOf(Member("method", k))[n].kind = "reason"
          /\ LinesOf(Member("method", k))[n].name = reason

NothingWritten(k) == LinesOf(Member("method", k)) = << >>

(***************************************************************************)
(* C1.  As stated: of two or more public methods of a class with equal     *)
(* short-style names, every one that Struct::write renders is rendered     *)
(* under its long-style name, and no two are rendered with the same        *)
(* identifier.  A rename table entry overrides the mangled name, so this   *)
(* fails for renamed methods.                                              *)
(***************************************************************************)
C1_AsStated ==
    \A j, k \in DOMAIN class.methods :
        Collide(j, k) /\ Visited(j) /\ Visited(k) /\ Written(j)
        => /\ RenderedName(j) = LongName(class.methods[j]).val
           /\ Written(k) => RenderedName(j) # RenderedName(k)

\* C1, amended: the same for the methods of the set that no rename table
\* matches.
C1_CollidingMethodsRenderLong ==
    \A j, k \in DOMAIN class.methods :
        Collide(j, k) /\ Visited(j) /\ Visited(k) /\ Written(j)
        /\ ~Renamed(class.methods[j])
        => /\ RenderedName(j) = LongName(class.methods[j]).val
           /\ RenderedName(j) # ShortName(class.methods[j]).val
           /\ Written(k) /\ ~Renamed(class.methods[k])
                 => RenderedName(j) # RenderedName(k)

C1_Witness ==
    /\ pc = "done"
    /\ \E j, k \in DOMAIN class.methods :
          /\ Collide(j, k)
          /\ ~Renamed(class.methods[j]) /\ ~Renamed(class.methods[k])
          /\ Live(j) /\ Live(k)
          /\ RenderedName(j) = LongName(class.methods[j]).val
          /\ RenderedName(j) # RenderedName(k)

(***************************************************************************)
(* C2.  As stated: a public method whose short-style name no other member  *)
(* of its class has is rendered under that short-style name.  Fails for a  *)
(* method a rename table matches.                                          *)
(***************************************************************************)
UniqueShortName(k) ==
    /\ class.methods[k].public
    /\ ShortName(class.methods[k]).ok
    /\ \A j \in DOMAIN class.methods :
          j # k /\ ShortName(class.methods[j]).ok
             => ShortName(class.methods[j]).val # ShortName(class.methods[k]).val
    /\ ShortName(class.methods[k]).val \notin Range(field_names(class.fields))

C2_AsStated ==
    \A k \in DOMAIN class.methods :
        UniqueShortName(k) /\ Visited(k) /\ Written(k)
        => RenderedName(k) = ShortName(class.methods[k]).val

\* C2, amended: a public method that no rename table matches and whose
\* short-style name is counted once among the names of the public methods
\* and public field accessors is rendered under its short-style name.
CountedOnce(k) ==
    /\ class.methods[k].public
    /\ ShortName(class.methods[k]).ok
    /\ Cardinality({j \in DOMAIN class.methods :
                       /\ class.methods[j].public
                       /\ ShortName(class.methods[j]).ok
                       /\ ShortName(class.methods[j]).val
                             = ShortName(class.methods[k]).val}) = 1
    /\ ShortName(class.methods[k]).val \notin Range(field_names(class.fields))

C2_UniqueMethodsRenderShort ==
    \A k \in DOMAIN class.methods :
        CountedOnce(k) /\ Visited(k) /\ Written(k) /\ ~Renamed(class.methods[k])
        => RenderedName(k) = ShortName(class.methods[k]).val

C2_Witness ==
    /\ pc = "done"
    /\ \E j, k \in DOMAIN class.methods :
          /\ j # k
          /\ CountedOnce(k) /\ ~Renamed(class.methods[k])
          /\ Live(k)
          /\ RenderedName(k) = ShortName(class.methods[k]).val

(***************************************************************************)
(* C3.  A static initializer never contributes text to the output,         *)
(* whatever the ignore lists, the rename tables and keep_rejected_emits    *)
(* say: once the emit loop has passed it, no line of `out` comes from it.  *)
(***************************************************************************)
C3_StaticInitWritesNothing ==
    \A k \in DOMAIN class.methods :
        is_static_init(class.methods[k]) => NothingWritten(k)

C3_Witness ==
    /\ pc = "done"
    /\ \E k \in DOMAIN class.methods :
          /\ is_static_init(class.methods[k])
          /\ Visited(k)
          /\ config.keep_rejected_emits
          /\ Renamed(class.methods[k])
          /\ ignored(class.methods[k])
          /\ NothingWritten(k)

(***************************************************************************)
(* C4.  A method with a parameter or a return type that references, plain  *)
(* or as an array element, a class missing from all_classes is rejected:   *)
(* it is never live; with keep_rejected_emits it is written as a stub, all *)
(* commented, that carries the exact reason; without, nothing is written   *)
(* for it.  Either way the members after it are still written.             *)
(***************************************************************************)
MissingClass(ty) == ty.inner.tag = "Class" /\ ty.inner.class \notin all_classes

MissingParam(java) == \E n \in DOMAIN java.params : MissingClass(java.params[n])

MissingReturn(java) == MissingClass(java.ret)

Rejected(k, reason) ==
    /\ ~Live(k)
    /\ config.keep_rejected_emits => StubWith(k, reason)
    /\ ~config.keep_rejected_emits => NothingWritten(k)

C4_MissingClassRejected ==
    \A k \in DOMAIN class.methods :
        /\ Visited(k) /\ MissingParam(class.methods[k])
              => Rejected(k, "ERROR:  missing class for argument type")
        /\ Visited(k) /\ MissingReturn(class.methods[k])
              => Rejected(k, "ERROR:  missing class for return type")
        /\ pc = "done"
           /\ (MissingParam(class.methods[k]) \/ MissingReturn(class.methods[k]))
              => /\ \A j \in DOMAIN class.methods : j > k => Live(j)
                 /\ \A j \in DOMAIN class.fields :
                       LinesOf(Member("field", j)) # << >>

C4_Witness ==
    /\ pc = "done"
    /\ config.keep_rejected_emits
    /\ MissingReturn(class.methods[1])
    /\ class.methods[1].ret.levels > 0
    /\ StubWith(1, "ERROR:  missing class for return type")
    /\ Live(2)
    /\ LinesOf(Member("field", 1)) # << >>

(***************************************************************************)
(* C5.  A constructor is written with the return type Local<'env, Self>    *)
(* and the call new_object_a; a constructor whose descriptor does not      *)
(* return void is rejected with the reason that it should have.            *)
(***************************************************************************)
CallOf(k) ==
    SelectSeq(out, LAMBDA l : l.src = Member("method", k) /\ l.kind = "call")

C5_Constructors ==
    \A k \in DOMAIN class.methods :
        Visited(k) /\ is_constructor(class.methods[k])
        => /\ Written(k) => CallOf(k)[1].name = "new_object_a"
           /\ Live(k) => FnLineOf(k)[1].ret = <<"__jni_bindgen::Local<'env, Self>">>
           /\ class.methods[k].ret = TVoid /\ Written(k)
                 => FnLineOf(k)[1].ret = <<"__jni_bindgen::Local<'env, Self>">>
           /\ class.methods[k].ret # TVoid
                 => Rejected(k, "ERROR:  Constructor should've returned void")

C5_Witness ==
    /\ pc = "done"
    /\ is_constructor(class.methods[1])
    /\ Live(1)
    /\ RenderedName(1) = "new"
    /\ FnLineOf(1)[1].ret = <<"__jni_bindgen::Local<'env, Self>">>
    /\ CallOf(1)[1].name = "new_object_a"

(***************************************************************************)
(* C9.  Void as a parameter type, or as the element type of an array in a  *)
(* parameter or in the return type, adds a rejection reason: the method is *)
(* never live, and is either not written or written as a stub that names   *)
(* the reason.                                                             *)
(***************************************************************************)
VoidParam(java) ==
    \E n \in DOMAIN java.params :
        java.params[n].levels = 0 /\ java.params[n].inner.tag = "Void"

VoidArrayParam(java) ==
    \E n \in DOMAIN java.params :
        java.params[n].levels > 0 /\ java.params[n].inner.tag = "Void"

C9_VoidRejected ==
    \A k \in DOMAIN class.methods :
        LET java == class.methods[k]
        IN  /\ Visited(k) /\ VoidParam(java)
                  => Rejected(k, "ERROR:  Void arguments aren't a thing")
            /\ Visited(k) /\ VoidArrayParam(java)
                  => Rejected(k, "ERROR:  Arrays of void isn't a thing")
            /\ Visited(k) /\ java.ret.inner.tag = "Void" /\ java.ret.levels = 1
                  => Rejected(k, "ERROR:  Returning arrays of void isn't a thing")
            /\ Visited(k) /\ java.ret.inner.tag = "Void" /\ java.ret.levels > 1
                  => Rejected(k, "ERROR:  Arrays of void isn't a thing")

C9_Witness ==
    /\ pc = "done"
    /\ config.keep_rejected_emits
    /\ VoidArrayParam(class.methods[1])
    /\ class.methods[1].params[1].levels = MaxLevels
    /\ class.methods[1].ret = TInt
    /\ StubWith(1, "ERROR:  Arrays of void isn't a thing")

(***************************************************************************)
(* C6.  Attachment through with_env is idempotent, for any interleaving of *)
(* the calls of the threads: a call entered on an attached thread hands    *)
(* that thread's existing handle to the callback and does not call         *)
(* AttachCurrentThread; AttachCurrentThread is called only after GetEnv    *)
(* answered JNI_EDETACHED, and at most once per thread between detaches.   *)
(***************************************************************************)
C6_AttachIdempotent ==
    \A t \in Threads :
        /\ thread[t].attach_calls > 0 => thread[t].get_env = "JNI_EDETACHED"
        /\ thread[t].env_before # NullEnv
              => /\ thread[t].attach_calls = 0
                 /\ thread[t].pc # "AttachCurrentThread"
                 /\ thread[t].callback_runs > 0
                       => thread[t].callback_env = thread[t].env_before
        /\ thread[t].attaches_since_detach <= 1

C6_Witness ==
    \E t, u \in Threads :
        /\ t # u
        /\ thread[u].calls > 0
        /\ thread[t].calls = 2
        /\ thread[t].attaches_since_detach = 1
        /\ thread[t].env_before # NullEnv
        /\ thread[t].get_env = "JNI_OK"
        /\ thread[t].attach_calls = 0
        /\ thread[t].callback_runs = 1
        /\ thread[t].callback_env = thread[t].env_before

(***************************************************************************)
(* C7.  A with_env call either runs its callback exactly once, with an     *)
(* environment handle, and returns the callback's result, or panics        *)
(* without running it; it panics when GetEnv answers JNI_EVERSION or any   *)
(* unexpected code and when AttachCurrentThread fails; GetEnv and          *)
(* AttachCurrentThread are each called at most once per call.              *)
(***************************************************************************)
C7_OnceOrPanic ==
    \A t \in Threads :
        /\ thread[t].get_env_calls <= 1
        /\ thread[t].attach_calls <= 1
        /\ thread[t].callback_runs <= 1
        /\ thread[t].pc = "idle" /\ thread[t].calls > 0
              => /\ thread[t].callback_runs = 1
                 /\ thread[t].callback_env # NullEnv
                 /\ thread[t].returned = thread[t].callback_result
        /\ thread[t].pc = "panicked"
              => /\ thread[t].callback_runs = 0
                 /\ thread[t].returned = ""
                 /\ \/ thread[t].get_env \notin {"JNI_OK", "JNI_EDETACHED"}
                    \/ thread[t].get_env = "JNI_EDETACHED" /\ thread[t].attach # "JNI_OK"
        /\ thread[t].get_env_calls = 1
           /\ thread[t].get_env \notin {"JNI_OK", "JNI_EDETACHED"}
              => thread[t].pc = "panicked"
        /\ thread[t].attach_calls = 1 /\ thread[t].attach # "JNI_OK"
              => thread[t].pc = "panicked"

C7_Witness ==
    \E t, u \in Threads :
        /\ thread[t].pc = "idle" /\ thread[t].calls > 0
        /\ thread[t].attach = "JNI_OK"
        /\ thread[t].callback_runs = 1
        /\ thread[t].returned = "r2"
        /\ thread[u].pc = "panicked"
        /\ thread[u].attach = "JNI_ERR"
        /\ thread[u].callback_runs = 0

(***************************************************************************)
(* C8.  mod_for gives the namespace parts of a class id joined by "::" in  *)
(* their order, and nothing of the class names; name_for gives every       *)
(* enclosing class name followed by "_" and then the leaf name or its      *)
(* rename, and nothing of the namespaces.  Either fails exactly when a     *)
(* part it uses (a leaf that is renamed is not used) has no Rust           *)
(* identifier.  Class pkg.Outer$Inner gets the module path pkg and the     *)
(* struct name Outer_Inner.                                                *)
(***************************************************************************)
IdsOf(id, part) ==
    LET parts == SelectSeq(id, LAMBDA p : p.part = part)
    IN  [k \in 1 .. Len(parts) |-> parts[k].id]

RECURSIVE JoinedBy(_, _)
JoinedBy(ids, sep) ==
    IF ids = << >> THEN ""
    ELSE IF Len(ids) = 1 THEN ids[1]
    ELSE ids[1] \o sep \o JoinedBy(Tail(ids), sep)

RECURSIVE EachFollowedBy(_, _)
EachFollowedBy(ids, sep) ==
    IF ids = << >> THEN "" ELSE ids[1] \o sep \o EachFollowedBy(Tail(ids), sep)

LeafName(id) ==
    IF id \in DOMAIN config.rename_classes
    THEN config.rename_classes[id] ELSE IdsOf(id, "LeafClass")[1]

Wrapper == "__jni_bindgen::ObjectArray<"

\* The expression between the Option<..> prefix and the closing ">>".
Inside(text) == SubSeq(text, 2, Len(text) - 1)

RECURSIVE Depth(_)
Depth(toks) ==
    IF toks # << >> /\ Head(toks) = Wrapper THEN 1 + Depth(Tail(toks)) ELSE 0

Innermost(toks) == toks[Depth(toks) + 1]

Closers(toks) == SubSeq(toks, Depth(toks) + 2, Len(toks))

KindsOf(tok) == {k \in ArrayPrimitives : PrimitiveArray(k) = tok}

PrimitiveArrayType(ty) == ty.levels >= 1 /\ ty.inner.tag \in ArrayPrimitives

TextOf(dir, ty) == IF dir = "argument" THEN arg_type(ty).text ELSE ret_decl(ty).text

C10_PrimitiveArrayRoundTrip ==
    mapped.state = "mapped" /\ PrimitiveArrayType(sig.ty)
    => LET toks == Inside(mapped.text)
       IN  /\ mapped.reasons = << >>
           /\ Len(mapped.text) >= 3
           /\ mapped.text[1] =
                 (IF sig.dir = "argument"
                  THEN "impl __jni_bindgen::std::convert::Into<__jni_bindgen::std::option::Option<&'env "
                  ELSE "__jni_bindgen::std::option::Option<__jni_bindgen::Local<'env, ")
           /\ mapped.text[Len(mapped.text)] = ">>"
           /\ Depth(toks) + 1 = sig.ty.levels
           /\ Cardinality({n \in DOMAIN mapped.text : mapped.text[n] = Wrapper})
                 = sig.ty.levels - 1
           /\ KindsOf(Innermost(toks)) = {sig.ty.inner.tag}
           /\ Closers(toks) = Repeat(<<", ", throwable_rust_path, ">">>, Depth(toks))
           /\ \A other \in Types :
                 PrimitiveArrayType(other) /\ TextOf(sig.dir, other) = mapped.text
                    => other = sig.ty

C10_Witness ==
    /\ mapped.state = "mapped"
    /\ sig.dir = "return"
    /\ sig.ty = Array(MaxLevels, Prim("Long"))
    /\ Depth(Inside(mapped.text)) = MaxLevels - 1
    /\ Innermost(Inside(mapped.text)) = "__jni_bindgen::LongArray"

(***************************************************************************)
(* C11.  Module::write renders the tree depth-first in a fixed order: in   *)
(* every module the child modules in ascending name order, each with its   *)
(* whole subtree before the next, and then the module's structs in         *)
(* ascending key order.  The output is a function of the set of structs    *)
(* given, whatever the order in which they were inserted.                  *)
(***************************************************************************)
\* Of a set of structs: the names of the modules directly inside the module
\* at path `at`, and the structs directly inside it.
ChildModules(S, at) ==
    {s.mod_[Len(at) + 1] :
        s \in {x \in S : Len(x.mod_) > Len(at) /\ SubSeq(x.mod_, 1, Len(at)) = at}}

StructsIn(S, at) == {s \in S : s.mod_ = at}

Ascending(keys) ==
    CHOOSE seq \in [1 .. Cardinality(keys) -> keys] :
        /\ Range(seq) = keys
        /\ \A m, n \in DOMAIN seq : m < n => Rank(seq[m]) < Rank(seq[n])

\* The depth-first rendering of a set of structs, from the module at `at`.
RECURSIVE DepthFirst(_, _)
DepthFirst(S, at) ==
    LET names == Ascending(ChildModules(S, at))
        keys  == Ascending({s.struct_name : s \in StructsIn(S, at)})
        named(key) == CHOOSE s \in StructsIn(S, at) : s.struct_name = key
    IN  Flatten([n \in DOMAIN names |->
                    <<ModLine("blank", "", Len(at))>>
                    \o module_attrs(Len(at))
                    \o <<ModLine("mod", names[n], Len(at)),
                         ModLine("use", "", Len(at) + 1)>>
                    \o DepthFirst(S, at \o <<names[n]>>)
                    \o <<ModLine("close", names[n], Len(at))>>])
        \o Flatten([n \in DOMAIN keys |->
                    struct_attrs(named(keys[n]), Len(at))
                    \o struct_body(named(keys[n]), Len(at))])

C11_DepthFirstDeterministic ==
    mpc = "done" => mout = DepthFirst(items, << >>)

C11_Witness ==
    /\ mpc = "done"
    /\ Cardinality(items) = MaxStructs
    /\ \E s, t, u \in items :
          /\ s.mod_ = <<"b">> /\ t.mod_ = <<"a", "b">> /\ u.mod_ = <<"a">>
          /\ \E i, j, k \in DOMAIN mout :
                /\ i < j /\ j < k
                /\ mout[i] = ModLine("struct", t.struct_name, 2)
                /\ mout[j] = ModLine("struct", u.struct_name, 1)
                /\ mout[k] = ModLine("mod", "b", 0)

(***************************************************************************)
(* C12.  As stated: at no point of Struct::write has one method of a set   *)
(* of methods with equal short names been written while another method of  *)
(* the set still carries its short name.  The loop of structs.rs 198-208   *)
(* re-mangles a method and emits it in the same round, so the later        *)
(* methods of the set are still short when the first one is written.       *)
(***************************************************************************)
AnyLineWritten(k) == LinesOf(Member("method", k)) # << >>

C12_AsStated ==
    \A j, k \in DOMAIN methods :
        Collide(j, k) /\ AnyLineWritten(j)
        => methods[k].mangling_style = method_naming_style_collision

\* The public methods and public field accessor names counted under a name.
CountOf(name) ==
    Cardinality({j \in DOMAIN class.methods :
                    /\ class.methods[j].public
                    /\ ShortName(class.methods[j]).ok
                    /\ ShortName(class.methods[j]).val = name})
    + Cardinality({n \in DOMAIN field_names(class.fields) :
                      field_names(class.fields)[n] = name})

\* C12, amended: the names are counted before the first method is emitted,
\* and every method of a colliding set is re-mangled to its long name before
\* it is itself emitted; it keeps the long name from then on, and the name
\* written for it, unless a rename table matches it, is the name it carries.
C12_RemangledBeforeOwnEmit ==
    /\ pc \in {"emit", "done"}
          => \A k \in DOMAIN class.methods :
                class.methods[k].public /\ ShortName(class.methods[k]).ok
                => /\ ShortName(class.methods[k]).val \in DOMAIN id_repeats
                   /\ id_repeats[ShortName(class.methods[k]).val]
                         = CountOf(ShortName(class.methods[k]).val)
    /\ \A j, k \in DOMAIN methods :
          Collide(j, k) /\ (AnyLineWritten(k) \/ Visited(k))
          => /\ methods[k].mangling_style = method_naming_style_collision
             /\ Written(k) /\ ~Renamed(class.methods[k])
                   => /\ methods[k].rust_name.some
                      /\ RenderedName(k) = methods[k].rust_name.val

\* The first method of a colliding pair is written, re-mangled; the second
\* has not had its round and still carries the short name.
C12_Witness ==
    /\ pc = "emit"
    /\ next_member = 2
    /\ Len(methods) = 2
    /\ Collide(1, 2)
    /\ Live(1)
    /\ methods[1].mangling_style = method_naming_style_collision
    /\ RenderedName(1) = methods[1].rust_name.val
    /\ methods[2].mangling_style = method_naming_style

(***************************************************************************)
(* C13.  For a method that is not a static initializer the rejection       *)
(* reasons that apply accumulate: no usable name (mangling failed and no   *)
(* rename), non-public, bridge, ignored, every invalid or unresolved       *)
(* parameter type, an invalid or unresolved return type, a constructor     *)
(* that does not return void.  With a reason the method is never live:     *)
(* without keep_rejected_emits nothing is written for it, with it every    *)
(* non-blank line is commented and the "Not emitting" lines are the        *)
(* reasons, one line each.  Without a reason the method is live.           *)
(***************************************************************************)
ReasonsOfType(ty, what) ==
    IF ty.inner.tag = "Void"
    THEN IF ty.levels = 0
         THEN IF what = "argument"
              THEN <<"ERROR:  Void arguments aren't a thing">> ELSE << >>
         ELSE IF what = "return" /\ ty.levels = 1
              THEN <<"ERROR:  Returning arrays of void isn't a thing">>
              ELSE <<"ERROR:  Arrays of void isn't a thing">>
    ELSE IF ty.inner.tag = "Class"
    THEN (IF ty.inner.class \notin all_classes
          THEN <<"ERROR:  missing class for " \o what \o " type">> ELSE << >>)
         \o (IF ~java_to_rust_path(ty.inner.class).ok
             THEN <<"ERROR:  Failed to resolve JNI path to Rust path for "
                    \o what \o " type">>
             ELSE << >>)
    ELSE << >>

ReasonsThatApply(java) ==
    (IF ~ShortName(java).ok /\ ~Renamed(java)
     THEN <<"ERROR:  Failed to mangle method name">> ELSE << >>)
    \o (IF ~java.public THEN <<"Non-public method">> ELSE << >>)
    \o (IF java.bridge THEN <<"Bridge method - type erasure">> ELSE << >>)
    \o (IF ignored(java) THEN <<"[[ignore]]d">> ELSE << >>)
    \o Flatten([n \in DOMAIN java.params |-> ReasonsOfType(java.params[n], "argument")])
    \o ReasonsOfType(java.ret, "return")
    \o (IF java.name = "<init>" /\ java.ret # TVoid
        THEN <<"ERROR:  Constructor should've returned void">> ELSE << >>)

ReasonLinesOf(k) ==
    LET lines == SelectSeq(LinesOf(Member("method", k)), LAMBDA l : l.kind = "reason")
    IN  [n \in DOMAIN lines |-> lines[n].name]

AllCommented(k) ==
    \A n \in DOMAIN LinesOf(Member("method", k)) :
        LinesOf(Member("method", k))[n].kind # "blank"
           => LinesOf(Member("method", k))[n].commented

IgnoredAndRenamed(k) ==
    /\ Visited(k)
    /\ ~is_static_init(class.methods[k])
    /\ ignored(class.methods[k])
    /\ Renamed(class.methods[k])

C14_AsStated ==
    \A k \in DOMAIN class.methods :
        IgnoredAndRenamed(k) /\ ReasonsThatApply(class.methods[k]) = <<"[[ignore]]d">>
        => Live(k) /\ RenderedName(k) = renamed_to(class.methods[k]).val

\* C14, amended: both are evaluated, the rename decides the identifier and
\* the ignore still rejects: the method is never live; with
\* keep_rejected_emits its stub carries the renamed identifier and the
\* "[[ignore]]d" reason, and without it nothing is written.
C14_IgnoreRejectsRenamed ==
    \A k \in DOMAIN class.methods :
        IgnoredAndRenamed(k)
        => /\ ~Live(k)
           /\ ~config.keep_rejected_emits => NothingWritten(k)
           /\ config.keep_rejected_emits
                 => /\ StubWith(k, "[[ignore]]d")
                    /\ RenderedName(k) = renamed_to(class.methods[k]).val
                    /\ "ERROR:  Failed to mangle method name" \notin Range(ReasonLinesOf(k))

C14_Witness ==
    /\ pc = "done"
    /\ config.keep_rejected_emits
    /\ IgnoredAndRenamed(1)
    /\ config.rename_class_methods = << >>
    /\ ReasonLinesOf(1) = <<"[[ignore]]d">>
    /\ RenderedName(1) = "renamed_sig"
    /\ AllCommented(1)

(***************************************************************************)
(* C15.  As stated: a method whose name failed to mangle is never emitted  *)
(* as a live declaration.  A rename table entry gives such a method a name *)
(* and no reason is pushed, so it can be live.                             *)
(***************************************************************************)
MangleFailed(k) == Visited(k) /\ ~methods[k].rust_name.some

C15_AsStated ==
    \A k \in DOMAIN class.methods : MangleFailed(k) => ~Live(k)

\* C15, amended: when mangling a method's name fails, generation goes on
\* (Struct::write reaches its end and the members after the method are
\* written); unless a rename table matches the method it is rejected with
\* the mangling reason: never live, a stub with that reason under
\* keep_rejected_emits, nothing otherwise.  A renamed method gets no
\* mangling reason and is written under its rename.
C15_MangleFailureRejects ==
    \A k \in DOMAIN class.methods :
        MangleFailed(k)
        => /\ pc # "panicked"
           /\ ~Renamed(class.methods[k]) /\ ~is_static_init(class.methods[k])
                 => Rejected(k, "ERROR:  Failed to mangle method name")
           /\ ~Renamed(class.methods[k]) => ~Live(k)
           /\ Renamed(class.methods[k]) /\ Written(k)
                 => /\ RenderedName(k) = renamed_to(class.methods[k]).val
                    /\ "ERROR:  Failed to mangle method name" \notin Range(ReasonLinesOf(k))
           /\ pc = "done"
                 => /\ \A j \in DOMAIN class.methods : j > k => Live(j)
                    /\ \A j \in DOMAIN class.fields : LinesOf(Member("field", j)) # << >>

C15_Witness ==
    /\ pc = "done"
    /\ config.keep_rejected_emits
    /\ MangleFailed(1)
    /\ ~Renamed(class.methods[1])
    /\ class.methods[1].public
    /\ ReasonLinesOf(1) = <<"ERROR:  Failed to mangle method name">>
    /\ RenderedName(1) = class.methods[1].name
    /\ AllCommented(1)
    /\ Live(2)
    /\ LinesOf(Member("field", 1)) # << >>

(***************************************************************************)
(* C16.  Every class that the live output of a struct references, as its   *)
(* super class, as an implemented interface, as a parameter type or as a   *)
(* return type, is in all_classes: no uncommented line written by          *)
(* Struct::write carries the Rust path of a class outside all_classes.     *)
(* Struct::write renders the super class without looking it up in          *)
(* all_classes.                                                            *)
(***************************************************************************)
LiveReference(c) ==
    \E n \in DOMAIN out :
        /\ ~out[n].commented
        /\ java_to_rust_path(c).val \in Range(out[n].params) \cup Range(out[n].ret)

C16_AsStated ==
    \A c \in ClassIds \ all_classes :
        java_to_rust_path(c).ok => ~LiveReference(c)

(***************************************************************************)
(* C17.  Every written method makes exactly one foreign call: a            *)
(* constructor calls new_object_a on the class, any other static method    *)
(* calls call_static_<tag>_method_a on the class, and every other method   *)
(* calls call_<tag>_method_a on the object of self, where <tag> is the     *)
(* lower-case name of a primitive return type and "object" for every class *)
(* and every array return type.                                            *)
(***************************************************************************)
DispatchTags ==
    [Void |-> "void", Boolean |-> "boolean", Byte |-> "byte", Char |-> "char",
     Short |-> "short", Int |-> "int", Long |-> "long", Float |-> "float",
     Double |-> "double", Class |-> "object"]

DispatchTag(ret) == IF ret.levels >= 1 THEN "object" ELSE DispatchTags[ret.inner.tag]

C17_ForeignCall ==
    \A k \in DOMAIN class.methods :
        Written(k) =>
            LET java == class.methods[k]
                call == CallOf(k)
            IN  /\ Len(call) = 1
                /\ IF is_constructor(java)
                   THEN /\ call[1].name = "new_object_a"
                        /\ call[1].params = <<"__jni_class">>
                   ELSE IF java.static
                   THEN /\ call[1].name
                              = "call_static_" \o DispatchTag(java.ret) \o "_method_a"
                        /\ call[1].params = <<"__jni_class">>
                   ELSE /\ call[1].name = "call_" \o DispatchTag(java.ret) \o "_method_a"
                        /\ call[1].params = <<"self.0.object">>

C17_Witness ==
    /\ pc = "done"
    /\ Live(1)
    /\ ~is_constructor(class.methods[1])
    /\ ~class.methods[1].static
    /\ class.methods[1].ret = Array(1, Prim("Int"))
    /\ CallOf(1)[1].name = "call_object_method_a"
    /\ CallOf(1)[1].params = <<"self.0.object">>

(***************************************************************************)
(* C18.  id_repeats counts, under every name, the public methods whose     *)
(* short name it is together with the accessor names of the public         *)
(* fields: the name of a constant once, the getter and the setter of a     *)
(* pair each.  A public method whose short name is also a public field's   *)
(* accessor name is re-mangled under the collision style in its round of   *)
(* the emit loop, and every field is written under the names it was        *)
(* constructed with.                                                       *)
(***************************************************************************)
MethodsNamed(name) ==
    {j \in DOMAIN class.methods :
        /\ class.methods[j].public
        /\ ShortName(class.methods[j]).ok
        /\ ShortName(class.methods[j]).val = name}

\* The accessors of public fields that carry a name: <<n, "a">> is the
\* constant or getter of field n, <<n, "b">> its setter.
AccessorsNamed(name) ==
    {acc \in (DOMAIN class.fields) \X {"a", "b"} :
        LET field == class.fields[acc[1]]
        IN  /\ field.public
            /\ \/ /\ acc[2] = "a"
                  /\ field.rust_names.kind \in {"ConstValue", "GetSet"}
                  /\ field.rust_names.a = name
               \/ /\ acc[2] = "b"
                  /\ field.rust_names.kind = "GetSet"
                  /\ field.rust_names.b = name}

CountedNames ==
    {ShortName(class.methods[j]).val : j \in {i \in DOMAIN class.methods :
        class.methods[i].public /\ ShortName(class.methods[i]).ok}}
    \cup {class.fields[n].rust_names.a : n \in {i \in DOMAIN class.fields :
        class.fields[i].public
        /\ class.fields[i].rust_names.kind \in {"ConstValue", "GetSet"}}}
    \cup {class.fields[n].rust_names.b : n \in {i \in DOMAIN class.fields :
        class.fields[i].public /\ class.fields[i].rust_names.kind = "GetSet"}}

FieldVisited(n) ==
    /\ pc \in {"emit", "done"}
    /\ n \in DOMAIN class.fields
    /\ next_member > Len(methods) + n

NamesWritten(n) ==
    [i \in DOMAIN LinesOf(Member("field", n)) |-> LinesOf(Member("field", n))[i].name]

NamesBefore(n) ==
    CASE class.fields[n].rust_names.kind = "ConstValue" -> <<class.fields[n].rust_names.a>>
      [] class.fields[n].rust_names.kind = "GetSet" ->
            <<class.fields[n].rust_names.a, class.fields[n].rust_names.b>>
      [] OTHER -> << >>

C18_FieldsCountedNotRemangled ==
    /\ pc \in {"emit", "done"}
          => /\ DOMAIN id_repeats = CountedNames
             /\ \A name \in CountedNames :
                   id_repeats[name] = Cardinality(MethodsNamed(name))
                                      + Cardinality(AccessorsNamed(name))
    /\ \A k \in DOMAIN class.methods :
          /\ Visited(k)
          /\ class.methods[k].public
          /\ ShortName(class.methods[k]).ok
          /\ AccessorsNamed(ShortName(class.methods[k]).val) # {}
          => /\ methods[k].mangling_style = method_naming_style_collision
             /\ Written(k) /\ ~Renamed(class.methods[k])
                   => RenderedName(k) = LongName(class.methods[k]).val
    /\ \A n \in DOMAIN class.fields :
          IF FieldVisited(n) THEN NamesWritten(n) = NamesBefore(n)
          ELSE LinesOf(Member("field", n)) = << >>

\* The only method is named like the getter of a public field: re-mangled
\* and written under its long name, and the field under its two names.
C18_Witness ==
    /\ pc = "done"
    /\ Len(methods) = 1
    /\ class.fields = <<[public |-> TRUE, rust_names |-> GetSet("foo", "set_foo")]>>
    /\ id_repeats = [n \in {"foo", "set_foo"} |-> IF n = "foo" THEN 2 ELSE 1]
    /\ methods[1].mangling_style = method_naming_style_collision
    /\ Live(1)
    /\ RenderedName(1) = LongName(class.methods[1]).val
    /\ RenderedName(1) # "foo"
    /\ NamesWritten(1) = <<"foo", "set_foo">>

=============================================================================
